---------------------------- MODULE Spec2Model ----------------------------
(***************************************************************************)
(* A model of broadcasttools.go: the telegraf input plugin that logs in to *)
(* Broadcast Tools devices, polls them concurrently and decodes their      *)
(* telemetry payload.                                                      *)
(*                                                                         *)
(* Strings are sequences of one-character strings, so that the regular     *)
(* expressions, Sprintf, Atoi and TrimSuffix are modelled by what they do. *)
(* A Go nil pointer is the empty sequence; a non-nil one is a sequence of  *)
(* length one holding the object.                                          *)
(***************************************************************************)
EXTENDS Integers, Sequences, FiniteSets, TLC

(***************************************************************************)
(* Strings                                                                 *)
(***************************************************************************)
DigitChars == <<"0", "1", "2", "3", "4", "5", "6", "7", "8", "9">>

IsDigit(c) == \E i \in 1..Len(DigitChars) : DigitChars[i] = c

DigitVal(c) == (CHOOSE i \in 1..Len(DigitChars) : DigitChars[i] = c) - 1

AllDigits(s) == \A i \in 1..Len(s) : IsDigit(s[i])

RECURSIVE DecVal(_)
\* the decimal value of a sequence of digits
DecVal(s) ==
    IF s = <<>> THEN 0
    ELSE DecVal(SubSeq(s, 1, Len(s) - 1)) * 10 + DigitVal(s[Len(s)])

\* the digits of the bounds of a 64-bit int: 1<<63 - 1 and the magnitude of
\* -1<<63
MaxInt64Digits ==
    <<"9", "2", "2", "3", "3", "7", "2", "0", "3", "6", "8", "5", "4", "7", "7", "5", "8", "0", "7">>
MinInt64Digits ==
    <<"9", "2", "2", "3", "3", "7", "2", "0", "3", "6", "8", "5", "4", "7", "7", "5", "8", "0", "8">>

RECURSIVE StripZeros(_)
StripZeros(s) ==
    IF Len(s) > 1 /\ s[1] = "0" THEN StripZeros(Tail(s)) ELSE s

RECURSIVE DigitsGreater(_, _)
\* a > b for two digit sequences of the same length
DigitsGreater(a, b) ==
    IF a = <<>> THEN FALSE
    ELSE IF a[1] # b[1] THEN DigitVal(a[1]) > DigitVal(b[1])
    ELSE DigitsGreater(Tail(a), Tail(b))

\* the digits are a number of a magnitude above that of limit
OutOfRange(digits, limit) ==
    LET m == StripZeros(digits)
    IN  Len(m) > Len(limit) \/ (Len(m) = Len(limit) /\ DigitsGreater(m, limit))

\* strconv.Atoi: an optional sign, then one or more digits; anything else is
\* a syntax error with value 0.  A number that does not fit the int is a
\* range error whose value is the bound of the int on its side (clamp says
\* which: the bound itself is wider than the integers of the model).
Atoi(s) ==
    LET signed == Len(s) > 0 /\ s[1] \in {"+", "-"}
        neg    == signed /\ s[1] = "-"
        body   == IF signed THEN Tail(s) ELSE s
    IN  IF body = <<>> \/ ~AllDigits(body)
        THEN [v |-> 0, err |-> TRUE, clamp |-> "none"]
        ELSE IF OutOfRange(body, IF neg THEN MinInt64Digits ELSE MaxInt64Digits)
        THEN [v |-> 0, err |-> TRUE, clamp |-> IF neg THEN "min" ELSE "max"]
        ELSE [v |-> IF neg THEN 0 - DecVal(body) ELSE DecVal(body),
              err |-> FALSE, clamp |-> "none"]

RECURSIVE Itoa(_)
\* %d of a non-negative int
Itoa(n) ==
    IF n < 10 THEN <<DigitChars[n + 1]>>
    ELSE Itoa(n \div 10) \o <<DigitChars[(n % 10) + 1]>>

\* %02d of a non-negative int: zero-padded to at least two digits
Pad2(n) == IF n < 10 THEN <<"0">> \o Itoa(n) ELSE Itoa(n)

HasSuffix(s, suf) ==
    /\ Len(s) >= Len(suf)
    /\ SubSeq(s, Len(s) - Len(suf) + 1, Len(s)) = suf

\* strings.TrimSuffix
TrimSuffix(s, suf) ==
    IF HasSuffix(s, suf) THEN SubSeq(s, 1, Len(s) - Len(suf)) ELSE s

UnitSuffix == <<" ", "*", "F">>

(***************************************************************************)
(* The sensor categories and the parser table                              *)
(***************************************************************************)
sensorTemp   == <<"t", "e", "m", "p">>
sensorMeter  == <<"m", "e", "t", "e", "r">>
sensorVC     == <<"v", "c">>
sensorStatus == <<"s", "t", "a", "t", "u", "s">>
sensorRelay  == <<"r", "e", "l", "a", "y">>

\* the literal prefixes of the five regular expressions ^<prefix>(\d+)$
regexpTemp   == <<"T", "1">>
regexpMeter  == <<"M", "1">>
regexpVC     == <<"V", "C", "L", "a", "b", "e", "l">>
regexpStatus == <<"S", "1">>
regexpRelay  == <<"R", "2">>

\* the literal prefixes of the companion keys <prefix>%02d
TempValue       == <<"T", "e", "m", "p", "V", "a", "l", "u", "e">>
MeterValue      == <<"M", "e", "t", "e", "r", "V", "a", "l", "u", "e">>
VCValue         == <<"V", "C", "V", "a", "l", "u", "e">>
StatusIndicator == <<"S", "t", "a", "t", "u", "s", "I", "n", "d", "i", "c", "a", "t", "o", "r">>
RelayIndicator  == <<"R", "e", "l", "a", "y", "I", "n", "d", "i", "c", "a", "t", "o", "r">>

\* a JSON value as Go decodes it into interface{}, and the int a parser makes
NilValue     == [t |-> "nil", n |-> 0, s |-> <<>>]
IntValue(n)  == [t |-> "int", n |-> n, s |-> <<>>]
NumValue(n)  == [t |-> "float", n |-> n, s |-> <<>>]
StrValue(s)  == [t |-> "str", n |-> 0, s |-> s]

\* the int v of v, _ := strconv.Atoi(t): an int the range error clamped is
\* carried by its digits
AtoiValue(a) ==
    CASE a.clamp = "max" -> [t |-> "int", n |-> 0, s |-> MaxInt64Digits]
      [] a.clamp = "min" -> [t |-> "int", n |-> 0, s |-> <<"-">> \o MinInt64Digits]
      [] OTHER -> IntValue(a.v)

\* reg.FindStringSubmatch(key) for ^<prefix>(\d+)$: <<key, digits>> or <<>>
FindStringSubmatch(prefix, key) ==
    IF /\ Len(key) > Len(prefix)
       /\ SubSeq(key, 1, Len(prefix)) = prefix
       /\ AllDigits(SubSeq(key, Len(prefix) + 1, Len(key)))
    THEN <<key, SubSeq(key, Len(prefix) + 1, Len(key))>>
    ELSE <<>>

\* src[k] of a Go map: the zero value (nil) when k is absent
MapGet(src, k) == IF k \in DOMAIN src THEN src[k] ELSE NilValue

\* the temperature parser: the unchecked assertion .(string) panics on a
\* value that is absent or not a string
parseTemp(src, index) ==
    LET x == MapGet(src, TempValue \o Pad2(index))
    IN  IF x.t # "str"
        THEN [panic |-> TRUE, value |-> NilValue, sensor |-> sensorTemp]
        ELSE [panic |-> FALSE,
              value |-> AtoiValue(Atoi(TrimSuffix(x.s, UnitSuffix))),
              sensor |-> sensorTemp]

\* the four pass-through parsers
parsePass(src, index, companion, sensor) ==
    [panic |-> FALSE, value |-> MapGet(src, companion \o Pad2(index)), sensor |-> sensor]

\* the map parsers, as a table indexed 1..5
RuleIds == 1..5

RulePrefix(r) ==
    CASE r = 1 -> regexpTemp
      [] r = 2 -> regexpMeter
      [] r = 3 -> regexpVC
      [] r = 4 -> regexpStatus
      [] r = 5 -> regexpRelay

\* the table, were the meter parser to tag its value with the temperature
\* category
parsersMeterAsTemp(r, src, index) ==
    CASE r = 1 -> parseTemp(src, index)
      [] r = 2 -> parsePass(src, index, MeterValue, sensorTemp)
      [] r = 3 -> parsePass(src, index, VCValue, sensorVC)
      [] r = 4 -> parsePass(src, index, StatusIndicator, sensorStatus)
      [] r = 5 -> parsePass(src, index, RelayIndicator, sensorRelay)

parsers(r, src, index) ==
    CASE r = 1 -> parseTemp(src, index)
      [] r = 2 -> parsePass(src, index, MeterValue, sensorMeter)
      [] r = 3 -> parsePass(src, index, VCValue, sensorVC)
      [] r = 4 -> parsePass(src, index, StatusIndicator, sensorStatus)
      [] r = 5 -> parsePass(src, index, RelayIndicator, sensorRelay)

\* fmt.Sprintf("%s_%d", sensor, index)
FieldName(sensor, index) == sensor \o <<"_">> \o Itoa(index)

\* fields[name] = value
MapSet(fields, name, value) ==
    [k \in DOMAIN fields \cup {name} |-> IF k = name THEN value ELSE fields[k]]

EmptyMap == [k \in {} |-> NilValue]

RECURSIVE DecodeRules(_, _, _, _)
\* the inner loop of device.Gather: one key against the rules in the order
\* the map iteration yields them
DecodeRules(values, key, rules, st) ==
    IF rules = <<>> \/ st.panic THEN st
    ELSE
        LET r       == Head(rules)
            matches == FindStringSubmatch(RulePrefix(r), key)
        IN  IF Len(matches) < 2
            THEN DecodeRules(values, key, Tail(rules), st)
            ELSE
                LET a == Atoi(matches[2])
                IN  IF a.err
                    THEN DecodeRules(values, key, Tail(rules), st)
                    ELSE
                        LET p == parsers(r, values, a.v)
                        IN  IF p.panic
                            THEN [st EXCEPT !.panic = TRUE]
                            ELSE DecodeRules(values, key, Tail(rules),
                                     [st EXCEPT !.fields =
                                         MapSet(@, FieldName(p.sensor, a.v), p.value)])

RECURSIVE DecodeKeys(_, _, _, _)
\* the outer loop of device.Gather over the keys of values
DecodeKeys(values, keys, rules, st) ==
    IF keys = <<>> \/ st.panic THEN st
    ELSE DecodeKeys(values, Tail(keys), rules,
                    DecodeRules(values, Head(keys), rules, st))

\* the decoding loops of device.Gather, for one iteration order of the keys
\* and of the rules: [fields, panic]
Decode(values, keys, rules) ==
    DecodeKeys(values, keys, rules, [fields |-> EmptyMap, panic |-> FALSE])

(***************************************************************************)
(* HTTP: what a device can answer                                          *)
(***************************************************************************)
StatusOK == 200
StatusPartialContent == 206

\* *http.Cookie values a device may set
SessionA == [name |-> "session", value |-> "s1"]
SessionB == [name |-> "session", value |-> "s2"]
LangC    == [name |-> "lang", value |-> "en"]

\* r.Cookies() of a login response
CookieLists == {<<>>, <<SessionA>>, <<SessionB>>, <<LangC, SessionA>>, <<SessionB, LangC>>}

\* a nil pointer, and a pointer to x
Nil == <<>>
Ptr(x) == <<x>>

\* keys of a telemetry payload
KeyT101 == regexpTemp \o <<"0", "1">>
KeyT11  == regexpTemp \o <<"1">>
KeyM105 == regexpMeter \o <<"0", "5">>
KeyR212 == regexpRelay \o <<"1", "2">>
KeyTempValue01 == TempValue \o <<"0", "1">>
KeyMeterValue05 == MeterValue \o <<"0", "5">>
KeyOther == <<"X", "9">>

\* the keys payloads are built from, in one order
KeyList == <<KeyT101, KeyT11, KeyM105, KeyR212, KeyTempValue01, KeyMeterValue05, KeyOther>>

KeyPool == {KeyList[i] : i \in 1..Len(KeyList)}

Str68F  == <<"6", "8", " ", "*", "F">>
StrABCF == <<"A", "B", "C", " ", "*", "F">>
Str72   == <<"7", "2">>

\* the values a key may carry in a payload
ValueChoices(k) ==
    IF k = KeyTempValue01 THEN {StrValue(Str68F), StrValue(StrABCF), NumValue(68)}
    ELSE IF k = KeyMeterValue05 THEN {NumValue(42), StrValue(Str72)}
    ELSE {NumValue(1)}

MaxKeys == 2

\* the "values" objects: every choice of at most MaxKeys keys of the pool
Payloads ==
    UNION { { f \in [S -> UNION {ValueChoices(k) : k \in S}] :
                \A k \in S : f[k] \in ValueChoices(k) } :
            S \in {T \in SUBSET KeyPool : Cardinality(T) <= MaxKeys} }

\* a response body, as json.Decode and the lookup of "values" see it:
\*   malformed     not JSON, or JSON that is no object: Decode fails
\*   null          the JSON null: Decode leaves data nil
\*   novalues      an object without "values"
\*   valuesNotMap  an object whose "values" is no object
\*   ok            an object whose "values" is the object values
Body(kind, values) == [kind |-> kind, values |-> values]

NoBody == Body("none", EmptyMap)

BadBodies == {Body(k, EmptyMap) : k \in {"malformed", "null", "novalues", "valuesNotMap"}}

Bodies == BadBodies \cup {Body("ok", v) : v \in Payloads}

\* what c.Do returns: a transport error, or a response
Response(err, status, cookies, body) ==
    [err |-> err, status |-> status, cookies |-> cookies, body |-> body]

NoResp == Response(FALSE, 0, <<>>, NoBody)

NetErr == Response(TRUE, 0, <<>>, NoBody)

LoginResponsesOf(cookieLists) ==
    {NetErr, Response(FALSE, 401, <<>>, NoBody)}
        \cup {Response(FALSE, StatusOK, cks, NoBody) : cks \in cookieLists}

LoginResponses == LoginResponsesOf(CookieLists)

LogoutResponses ==
    {NetErr} \cup {Response(FALSE, s, <<>>, NoBody) : s \in {StatusOK, 500}}

RECURSIVE Filter(_, _)
\* the elements of the sequence q that are in S, in q's order
Filter(q, S) ==
    IF q = <<>> THEN <<>>
    ELSE IF Head(q) \in S THEN <<Head(q)>> \o Filter(Tail(q), S)
    ELSE Filter(Tail(q), S)

Reverse(q) == [i \in 1..Len(q) |-> q[Len(q) + 1 - i]]

\* orders in which the range over a Go map with the keys S may yield them:
\* one order and its reverse, so that any two keys come in both orders
KeyOrders(S) == {Filter(KeyList, S), Reverse(Filter(KeyList, S))}

\* orders in which the range over parsers may yield the rules, likewise
RuleOrders == {<<1, 2, 3, 4, 5>>, <<5, 4, 3, 2, 1>>}

(***************************************************************************)
(* device                                                                  *)
(***************************************************************************)
ErrNil == "nil"

\* &device{bt: bt, base: base, c: &http.Client{...}}
NewDevice(base) == [base |-> base, c |-> TRUE, ck |-> Nil]

\* the result of a device method: the device and the random source after
\* it, the error returned (or the panic raised), the requests it issued and
\* the records it handed to the accumulator
Result(d, rnd, err, panic, logins, gets, logouts, emitted) ==
    [dev |-> d, rnd |-> rnd, err |-> err, panic |-> panic, logins |-> logins,
     gets |-> gets, logouts |-> logouts, emitted |-> emitted]

\* device.send: r.AddCookie(d.ck) dereferences d.ck, and d.c.Do dereferences
\* d.c; either panics on nil before any request is issued
sendPanics(d, sendCookie) == (sendCookie /\ d.ck = Nil) \/ ~d.c

\* rnd.Intn: the generator advances
Intn(rnd) == Ptr([rnd[1] EXCEPT !.draws = @ + 1])

\* Dial, were it to store the last cookie of the response
DialLastCookie(d, rnd, resp) ==
    IF d.ck # Nil THEN Result(d, rnd, "already logged in", FALSE, 0, 0, 0, <<>>)
    ELSE IF rnd = Nil THEN Result(d, rnd, ErrNil, TRUE, 0, 0, 0, <<>>)
    ELSE IF sendPanics(d, FALSE) THEN Result(d, Intn(rnd), ErrNil, TRUE, 0, 0, 0, <<>>)
    ELSE IF resp.err THEN Result(d, Intn(rnd), "transport", FALSE, 1, 0, 0, <<>>)
    ELSE IF resp.status # StatusOK
         THEN Result(d, Intn(rnd), "authentication failed", FALSE, 1, 0, 0, <<>>)
    ELSE IF Len(resp.cookies) < 1
         THEN Result(d, Intn(rnd), "no cookies returned", FALSE, 1, 0, 0, <<>>)
    ELSE Result([d EXCEPT !.ck = Ptr(resp.cookies[Len(resp.cookies)])], Intn(rnd),
                ErrNil, FALSE, 1, 0, 0, <<>>)

\* Dial without its guard against a token already held
DialNoGuard(d, rnd, resp) ==
    IF rnd = Nil THEN Result(d, rnd, ErrNil, TRUE, 0, 0, 0, <<>>)
    ELSE IF sendPanics(d, FALSE) THEN Result(d, Intn(rnd), ErrNil, TRUE, 0, 0, 0, <<>>)
    ELSE IF resp.err THEN Result(d, Intn(rnd), "transport", FALSE, 1, 0, 0, <<>>)
    ELSE IF resp.status # StatusOK
         THEN Result(d, Intn(rnd), "authentication failed", FALSE, 1, 0, 0, <<>>)
    ELSE IF Len(resp.cookies) < 1
         THEN Result(d, Intn(rnd), "no cookies returned", FALSE, 1, 0, 0, <<>>)
    ELSE Result([d EXCEPT !.ck = Ptr(resp.cookies[1])], Intn(rnd), ErrNil, FALSE, 1, 0, 0, <<>>)

\* device.Dial, resp being what the device answers to the login request
Dial(d, rnd, resp) ==
    IF d.ck # Nil THEN Result(d, rnd, "already logged in", FALSE, 0, 0, 0, <<>>)
    ELSE IF rnd = Nil THEN Result(d, rnd, ErrNil, TRUE, 0, 0, 0, <<>>)
    ELSE IF sendPanics(d, FALSE) THEN Result(d, Intn(rnd), ErrNil, TRUE, 0, 0, 0, <<>>)
    ELSE IF resp.err THEN Result(d, Intn(rnd), "transport", FALSE, 1, 0, 0, <<>>)
    ELSE IF resp.status # StatusOK
         THEN Result(d, Intn(rnd), "authentication failed", FALSE, 1, 0, 0, <<>>)
    ELSE IF Len(resp.cookies) < 1
         THEN Result(d, Intn(rnd), "no cookies returned", FALSE, 1, 0, 0, <<>>)
    ELSE Result([d EXCEPT !.ck = Ptr(resp.cookies[1])], Intn(rnd), ErrNil, FALSE, 1, 0, 0, <<>>)

\* A method with a value receiver works on a copy: what it assigns to the
\* receiver's fields is lost when it returns
ValueReceiver(caller, local) == caller

\* device.Close, resp being what the device answers to the logout request
Close(d, rnd, resp) ==
    IF sendPanics(d, TRUE) THEN Result(d, rnd, ErrNil, TRUE, 0, 0, 0, <<>>)
    ELSE IF resp.err THEN Result(ValueReceiver(d, d), rnd, ErrNil, FALSE, 0, 0, 1, <<>>)
    ELSE Result(ValueReceiver(d, [d EXCEPT !.ck = Nil, !.c = FALSE]),
                rnd, ErrNil, FALSE, 0, 0, 1, <<>>)

\* the handling of the response, were every status other than 200 to drop
\* the token and log in again
GatherResponseRelogin(d, rnd, get, login, keys, rules) ==
    IF get.err THEN Result(d, rnd, "transport", FALSE, 0, 1, 0, <<>>)
    ELSE IF get.status # StatusOK THEN
        LET r == DialNoGuard(d, rnd, login)
        IN  IF r.panic \/ r.err # ErrNil
            THEN [r EXCEPT !.gets = 1]
            ELSE Result(r.dev, r.rnd, "expected status 200", FALSE, r.logins, 1, 0, <<>>)
    ELSE IF get.body.kind = "malformed" THEN Result(d, rnd, "json", FALSE, 0, 1, 0, <<>>)
    ELSE IF get.body.kind # "ok" THEN Result(d, rnd, ErrNil, TRUE, 0, 1, 0, <<>>)
    ELSE
        LET dec == Decode(get.body.values, keys, rules)
        IN  IF dec.panic THEN Result(d, rnd, ErrNil, TRUE, 0, 1, 0, <<>>)
            ELSE Result(d, rnd, ErrNil, FALSE, 0, 1, 0, <<dec.fields>>)

\* device.Gather from the response to its GET on: login is what the device
\* would answer to a login request, keys and rules the map iteration orders
GatherResponse(d, rnd, get, login, keys, rules) ==
    IF get.err THEN Result(d, rnd, "transport", FALSE, 0, 1, 0, <<>>)
    ELSE IF get.status # StatusOK THEN
        IF get.status = StatusPartialContent THEN
            LET r == Dial(d, rnd, login)
            IN  IF r.panic \/ r.err # ErrNil
                THEN [r EXCEPT !.gets = 1]
                ELSE Result(r.dev, r.rnd, "expected status 200", FALSE, r.logins, 1, 0, <<>>)
        ELSE Result(d, rnd, "expected status 200", FALSE, 0, 1, 0, <<>>)
    ELSE IF get.body.kind = "malformed" THEN Result(d, rnd, "json", FALSE, 0, 1, 0, <<>>)
    ELSE IF get.body.kind # "ok" THEN Result(d, rnd, ErrNil, TRUE, 0, 1, 0, <<>>)
    ELSE
        LET dec == Decode(get.body.values, keys, rules)
        IN  IF dec.panic THEN Result(d, rnd, ErrNil, TRUE, 0, 1, 0, <<>>)
            ELSE Result(d, rnd, ErrNil, FALSE, 0, 1, 0, <<dec.fields>>)

\* device.Gather
Gather(d, rnd, get, login, keys, rules) ==
    IF sendPanics(d, TRUE) THEN Result(d, rnd, ErrNil, TRUE, 0, 0, 0, <<>>)
    ELSE GatherResponse(d, rnd, get, login, keys, rules)

(***************************************************************************)
(* BroadcastTools                                                          *)
(***************************************************************************)
\* the server lists the fleet is configured with (":bad" is an address
\* url.Parse rejects)
ServerConfigs ==
    {<<"http://a">>, <<"http://a", "http://b">>, <<"http://a", "http://a">>,
     <<"http://a", ":bad">>, <<":bad", "http://a">>}

\* url.Parse
urlParse(u) == [err |-> IF u = ":bad" THEN "parse" ELSE ErrNil, base |-> u]

\* rand.New(rand.NewSource(time.Now().UnixNano())), the clock reading seed
NewRand(seed) == Ptr([seed |-> seed, draws |-> 0])

RECURSIVE initLoopSkip(_, _, _, _, _, _)
\* the loop of init, were it to skip a device whose login fails
initLoopSkip(servers, i, devs, rnd, logins, resps) ==
    IF i > Len(servers)
    THEN [devices |-> devs, rnd |-> rnd, err |-> ErrNil, logins |-> logins, initialized |-> TRUE]
    ELSE
        LET u == urlParse(servers[i])
            r == Dial(NewDevice(u.base), rnd, resps[i])
        IN  IF u.err # ErrNil
            THEN [devices |-> devs, rnd |-> rnd, err |-> u.err, logins |-> logins,
                  initialized |-> FALSE]
            ELSE IF r.err # ErrNil
            THEN initLoopSkip(servers, i + 1, devs, r.rnd, logins + r.logins, resps)
            ELSE initLoopSkip(servers, i + 1, Append(devs, r.dev), r.rnd,
                              logins + r.logins, resps)

RECURSIVE initLoopAppendAll(_, _, _, _, _, _)
\* the loop of init, were it to keep a device whose login fails
initLoopAppendAll(servers, i, devs, rnd, logins, resps) ==
    IF i > Len(servers)
    THEN [devices |-> devs, rnd |-> rnd, err |-> ErrNil, logins |-> logins, initialized |-> TRUE]
    ELSE
        LET u == urlParse(servers[i])
            r == Dial(NewDevice(u.base), rnd, resps[i])
        IN  IF u.err # ErrNil
            THEN [devices |-> devs, rnd |-> rnd, err |-> u.err, logins |-> logins,
                  initialized |-> FALSE]
            ELSE initLoopAppendAll(servers, i + 1, Append(devs, r.dev), r.rnd,
                                   logins + r.logins, resps)

RECURSIVE initLoop(_, _, _, _, _, _)
\* the loop of BroadcastTools.init from server i on; resps[i] is what
\* server i answers to a login request
initLoop(servers, i, devs, rnd, logins, resps) ==
    IF i > Len(servers)
    THEN [devices |-> devs, rnd |-> rnd, err |-> ErrNil, logins |-> logins, initialized |-> TRUE]
    ELSE
        LET u == urlParse(servers[i])
            r == Dial(NewDevice(u.base), rnd, resps[i])
        IN  IF u.err # ErrNil
            THEN [devices |-> devs, rnd |-> rnd, err |-> u.err, logins |-> logins,
                  initialized |-> FALSE]
            ELSE IF r.err # ErrNil
            THEN [devices |-> devs, rnd |-> r.rnd, err |-> r.err,
                  logins |-> logins + r.logins, initialized |-> FALSE]
            ELSE initLoop(servers, i + 1, Append(devs, r.dev), r.rnd,
                          logins + r.logins, resps)

\* init without its guard on bt.initialized
initUnguarded(servers, devs, rnd, isInit, seed, resps) ==
    initLoop(servers, 1, devs, NewRand(seed), 0, resps)

\* BroadcastTools.init
init(servers, devs, rnd, isInit, seed, resps) ==
    IF isInit
    THEN [devices |-> devs, rnd |-> rnd, err |-> ErrNil, logins |-> 0, initialized |-> TRUE]
    ELSE initLoop(servers, 1, devs, NewRand(seed), 0, resps)

(***************************************************************************)
(* State                                                                   *)
(***************************************************************************)
VARIABLES
    Servers,      \* bt.Servers
    devices,      \* bt.devices
    initialized,  \* bt.initialized
    rnd,          \* bt.rnd
    inits,        \* the runs of init that seeded bt.rnd (the clock of the seeds)
    hostpc,       \* the host's goroutine: "idle", "waiting" (in wg.Wait), "crashed"
    tasks,        \* the goroutines of the running Gather, one per device
    acc,          \* what the accumulator of the last Gather call received
    ret,          \* what the last call of init or Gather returned
    dev,          \* a device driven through the Device interface
    call          \* the last call of a method of dev

vars == <<Servers, devices, initialized, rnd, inits, hostpc, tasks, acc, ret, dev, call>>

fleetVars == <<Servers, devices, initialized, inits, hostpc, tasks, acc, ret>>

MaxInits == 2
MaxDraws == 2

NoRet == [op |-> "none", err |-> ErrNil, logins |-> 0]

NoCall == [op |-> "none", pre |-> NewDevice("none"), get |-> NoResp, login |-> NoResp,
           res |-> Result(NewDevice("none"), Nil, ErrNil, FALSE, 0, 0, 0, <<>>)]

(***************************************************************************)
(* A device driven through the Device interface                            *)
(***************************************************************************)
\* the state in init after the device literal of the first server
InitDevice ==
    /\ Servers = <<"http://a">>
    /\ devices = <<>>
    /\ initialized = FALSE
    /\ rnd = NewRand(1)
    /\ inits = 1
    /\ hostpc = "idle"
    /\ tasks = <<>>
    /\ acc = <<>>
    /\ ret = NoRet
    /\ dev = NewDevice(urlParse(Servers[1]).base)
    /\ call = NoCall

Called(op, get, login, r) ==
    /\ call' = [op |-> op, pre |-> dev, get |-> get, login |-> login, res |-> r]
    /\ dev' = r.dev
    /\ rnd' = r.rnd
    /\ UNCHANGED fleetVars

DevDial ==
    /\ rnd[1].draws < MaxDraws
    /\ \E login \in LoginResponses :
          Called("Dial", NoResp, login, Dial(dev, rnd, login))

DevClose ==
    IF sendPanics(dev, TRUE)
    THEN Called("Close", NoResp, NoResp, Close(dev, rnd, NoResp))
    ELSE \E resp \in LogoutResponses :
            Called("Close", NoResp, resp, Close(dev, rnd, resp))

\* the responses to the GET of a poll, to the login it may make, and the
\* iteration orders of its decoding loops
PollInputs(bodies, logins) ==
    { [get |-> get, login |-> NoResp, keys |-> <<>>, rules |-> <<>>] :
        get \in {NetErr, Response(FALSE, 500, <<>>, NoBody)}
                \cup {Response(FALSE, StatusOK, <<>>, b) : b \in BadBodies \cap bodies} }
    \cup
    { [get |-> Response(FALSE, StatusPartialContent, <<>>, NoBody), login |-> login,
       keys |-> <<>>, rules |-> <<>>] : login \in logins }
    \cup
    UNION { { [get |-> Response(FALSE, StatusOK, <<>>, b), login |-> NoResp,
               keys |-> keys, rules |-> rules] :
                keys \in KeyOrders(DOMAIN b.values), rules \in RuleOrders } :
            b \in {x \in bodies : x.kind = "ok"} }

DevPollInputs == PollInputs(Bodies, LoginResponses)

DevGather ==
    IF sendPanics(dev, TRUE)
    THEN Called("Gather", NoResp, NoResp, Gather(dev, rnd, NoResp, NoResp, <<>>, <<>>))
    ELSE \E in \in DevPollInputs :
            Called("Gather", in.get, in.login,
                   Gather(dev, rnd, in.get, in.login, in.keys, in.rules))

NextDevice == DevDial \/ DevClose \/ DevGather

SpecDevice == InitDevice /\ [][NextDevice]_vars

(***************************************************************************)
(* The decoding of one payload by an authenticated device                  *)
(***************************************************************************)
KeyM101 == regexpMeter \o <<"0", "1">>

Str72F  == <<"7", "2", " ", "*", "F">>
\* a reading of twenty digits: more than an int holds
StrBigF == <<"9", "9", "9", "9", "9", "9", "9", "9", "9", "9",
             "9", "9", "9", "9", "9", "9", "9", "9", "9", "9", " ", "*", "F">>

DecodeKeyList ==
    <<KeyT101, KeyT11, KeyM105, KeyM101, KeyR212, KeyTempValue01, KeyMeterValue05, KeyOther>>

DecodeKeyPool == {DecodeKeyList[i] : i \in 1..Len(DecodeKeyList)}

DecodeValueChoices(k) ==
    IF k = KeyTempValue01
    THEN {StrValue(Str68F), StrValue(Str72F), StrValue(StrABCF), StrValue(Str72),
          StrValue(StrBigF), NumValue(68)}
    ELSE IF k = KeyMeterValue05 THEN {NumValue(42), StrValue(Str72)}
    ELSE {NumValue(1)}

MaxDecodeKeys == 3

\* the payload {T101: 1, TempValue01: "68 *F", M105: 1, MeterValue05: 42}
PayloadEndToEnd ==
    (KeyT101 :> NumValue(1)) @@ (KeyTempValue01 :> StrValue(Str68F))
    @@ (KeyM105 :> NumValue(1)) @@ (KeyMeterValue05 :> NumValue(42))

\* the "values" objects the decoder is given: every choice of at most
\* MaxDecodeKeys keys of the pool, and the payload above
DecodePayloads ==
    {PayloadEndToEnd} \cup
    UNION { { f \in [S -> UNION {DecodeValueChoices(k) : k \in S}] :
                \A k \in S : f[k] \in DecodeValueChoices(k) } :
            S \in {T \in SUBSET DecodeKeyPool : Cardinality(T) <= MaxDecodeKeys} }

\* every order in which a range over a Go map may yield the keys S
Perms(S) ==
    { q \in [1..Cardinality(S) -> S] : \A i, j \in 1..Cardinality(S) : q[i] = q[j] => i = j }

\* the device has logged in and the GET of a poll has been answered with
\* status 200 and a payload
InitDecode ==
    /\ Servers = <<"http://a">>
    /\ devices = <<>>
    /\ initialized = FALSE
    /\ rnd = Intn(NewRand(1))
    /\ inits = 1
    /\ hostpc = "idle"
    /\ tasks = <<>>
    /\ acc = <<>>
    /\ ret = NoRet
    /\ dev = [NewDevice(urlParse(Servers[1]).base) EXCEPT !.ck = Ptr(SessionA)]
    /\ call \in { [op |-> "send", pre |-> dev,
                    get |-> Response(FALSE, StatusOK, <<>>, Body("ok", v)),
                    login |-> NoResp, res |-> NoCall.res] : v \in DecodePayloads }

\* device.Gather on that response, for one iteration order of the keys and
\* of the rules
DecodePoll ==
    /\ call.op = "send"
    /\ \E keys \in Perms(DOMAIN call.get.body.values), rules \in RuleOrders :
          Called("Gather", call.get, NoResp,
                 Gather(dev, rnd, call.get, NoResp, keys, rules))

NextDecode == DecodePoll

SpecDecode == InitDecode /\ [][NextDecode]_vars

(***************************************************************************)
(* The fleet as the host drives it                                         *)
(***************************************************************************)
Init ==
    /\ Servers \in ServerConfigs
    /\ devices = <<>>
    /\ initialized = FALSE
    /\ rnd = Nil
    /\ inits = 0
    /\ hostpc = "idle"
    /\ tasks = <<>>
    /\ acc = <<>>
    /\ ret = NoRet
    /\ dev = NewDevice("none")
    /\ call = NoCall

\* the bodies the devices of the fleet answer with
PayloadMeter == (KeyM105 :> NumValue(1)) @@ (KeyMeterValue05 :> NumValue(42))
PayloadTempOnly == (KeyT101 :> NumValue(1))

FleetBodies == BadBodies \cup {Body("ok", PayloadMeter), Body("ok", PayloadTempOnly)}

\* what the devices of the fleet answer to a login request
FleetLogins == LoginResponsesOf({<<>>, <<SessionA>>})

FleetPollInputs == PollInputs(FleetBodies, FleetLogins)

\* init has work to do only while the fleet is not initialized; the runs that
\* seed bt.rnd are bounded
CanInit == initialized \/ inits < MaxInits

\* the assignments of init to the fields of bt
InitRuns(r) ==
    /\ devices' = r.devices
    /\ rnd' = r.rnd
    /\ initialized' = r.initialized
    /\ inits' = IF initialized THEN inits ELSE inits + 1

\* a call of bt.init on its own
InitCall ==
    /\ hostpc = "idle"
    /\ CanInit
    /\ \E resps \in [1..Len(Servers) -> FleetLogins] :
          LET r == init(Servers, devices, rnd, initialized, inits + 1, resps)
          IN  /\ InitRuns(r)
              /\ ret' = [op |-> "init", err |-> r.err, logins |-> r.logins]
    /\ UNCHANGED <<Servers, hostpc, tasks, acc, dev, call>>

\* wg.Add(1); go func(d Device, ...) for every device of the list
\* (rnd records whether the goroutine has used bt.rnd)
Spawn(devs) == [i \in 1..Len(devs) |-> [pc |-> "ready", err |-> ErrNil, rnd |-> FALSE]]

\* bt.Gather up to wg.Wait(): the lazy init, then one goroutine per device
GatherCall ==
    /\ hostpc = "idle"
    /\ CanInit
    /\ \E resps \in [1..Len(Servers) -> FleetLogins] :
          LET r == init(Servers, devices, rnd, initialized, inits + 1, resps)
          IN  /\ InitRuns(r)
              /\ ret' = [op |-> "Gather", err |-> r.err, logins |-> r.logins]
              /\ IF ~initialized /\ r.err # ErrNil
                 THEN /\ tasks' = <<>>
                      /\ hostpc' = "idle"
                 ELSE /\ tasks' = Spawn(r.devices)
                      /\ hostpc' = "waiting"
    /\ acc' = <<>>
    /\ UNCHANGED <<Servers, dev, call>>

\* acc.AddFields("broadcasttools", fields, nil) and acc.AddError(err)
AddFields(a, i, fields) ==
    Append(a, [kind |-> "fields", name |-> "broadcasttools", task |-> i,
               fields |-> fields, err |-> ErrNil])

AddError(a, i, err) ==
    Append(a, [kind |-> "error", name |-> "", task |-> i, fields |-> EmptyMap, err |-> err])

\* what goroutine i hands to the accumulator: the record d.Gather emitted,
\* then the error it returned
Deliver(a, i, r) ==
    LET a1 == IF r.emitted # <<>> THEN AddFields(a, i, r.emitted[1]) ELSE a
    IN  IF r.err # ErrNil THEN AddError(a1, i, r.err) ELSE a1

\* goroutine i: d.Gather issues its GET; a panic in a goroutine ends the
\* process
TaskSend(i) ==
    /\ hostpc # "crashed"
    /\ tasks[i].pc = "ready"
    /\ IF sendPanics(devices[i], TRUE)
       THEN /\ tasks' = [tasks EXCEPT ![i].pc = "panicked"]
            /\ hostpc' = "crashed"
       ELSE /\ tasks' = [tasks EXCEPT ![i].pc = "fetching"]
            /\ hostpc' = hostpc
    /\ UNCHANGED <<Servers, devices, initialized, rnd, inits, acc, ret, dev, call>>

\* goroutine i: the response arrives, d.Gather handles it and returns, and
\* the goroutine reports the error and ends (wg.Done)
TaskRecv(i) ==
    /\ hostpc # "crashed"
    /\ tasks[i].pc = "fetching"
    /\ \E in \in FleetPollInputs :
          LET r == GatherResponse(devices[i], rnd, in.get, in.login, in.keys, in.rules)
          IN  IF r.panic
              THEN /\ tasks' = [tasks EXCEPT ![i].pc = "panicked"]
                   /\ hostpc' = "crashed"
                   /\ UNCHANGED <<devices, rnd, acc>>
              ELSE /\ tasks' = [tasks EXCEPT ![i] =
                                  [pc |-> "done", err |-> r.err, rnd |-> r.rnd # rnd]]
                   /\ devices' = [devices EXCEPT ![i] = r.dev]
                   /\ rnd' = r.rnd
                   /\ acc' = Deliver(acc, i, r)
                   /\ hostpc' = hostpc
    /\ UNCHANGED <<Servers, initialized, inits, ret, dev, call>>

\* a wait that ends as soon as one goroutine has ended
WaitAny(ts) == \E i \in 1..Len(ts) : ts[i].pc = "done"

\* wg.Wait() returns when every goroutine has called wg.Done
WaitDone(ts) == \A i \in 1..Len(ts) : ts[i].pc = "done"

\* a Gather that returns the error of the first goroutine that failed
GatherFirstError(ts) ==
    IF \E i \in 1..Len(ts) : ts[i].err # ErrNil
    THEN ts[CHOOSE i \in 1..Len(ts) : ts[i].err # ErrNil].err
    ELSE ErrNil

\* the return nil that ends Gather
GatherReturnValue(ts) == ErrNil

\* wg.Wait() returns when every goroutine has ended; Gather returns nil
GatherReturn ==
    /\ hostpc = "waiting"
    /\ WaitDone(tasks)
    /\ hostpc' = "idle"
    /\ ret' = [ret EXCEPT !.err = GatherReturnValue(tasks)]
    /\ UNCHANGED <<Servers, devices, initialized, rnd, inits, tasks, acc, dev, call>>

Next ==
    \/ InitCall
    \/ GatherCall
    \/ \E i \in 1..Len(tasks) : TaskSend(i)
    \/ \E i \in 1..Len(tasks) : TaskRecv(i)
    \/ GatherReturn

Spec == Init /\ [][Next]_vars

(***************************************************************************)
(* Properties                                                              *)
(***************************************************************************)
\* the last call on dev was a poll of an authenticated device that got the
\* status s
PolledWith(s) ==
    /\ call.op = "Gather"
    /\ call.pre.ck # Nil
    /\ ~call.get.err
    /\ call.get.status = s

\* the device would accept a login: status 200 and at least one cookie
Accepts(login) == ~login.err /\ login.status = StatusOK /\ Len(login.cookies) >= 1

\* C1: a poll of an authenticated device that receives 206, while the
\* device would accept a login, sends exactly one login request, still
\* returns a failure, and leaves the device holding the newly issued token
\* (so that the next poll needs no login).
C1_ExpiryRecovery ==
    (PolledWith(StatusPartialContent) /\ Accepts(call.login)) =>
        /\ call.res.logins = 1
        /\ ~call.res.panic
        /\ call.res.err # ErrNil
        /\ dev.ck = Ptr(call.login.cookies[1])

\* C2: after Close on a device holding a token, whether the logout request
\* succeeded or failed, the device holds no token and no transport handle,
\* and Close returned no error.
C2_LogoutClears ==
    (call.op = "Close" /\ call.pre.ck # Nil) =>
        /\ ~call.res.panic
        /\ call.res.err = ErrNil
        /\ dev.ck = Nil
        /\ ~dev.c

Count(a, kind) == Cardinality({j \in 1..Len(a) : a[j].kind = kind})

TaskFailed(i) ==
    tasks[i].pc = "panicked" \/ (tasks[i].pc = "done" /\ tasks[i].err # ErrNil)

TaskSucceeded(i) == tasks[i].pc = "done" /\ tasks[i].err = ErrNil

\* C3: in a cycle over N >= 2 devices in which device k failed its poll and
\* all the others succeeded, the cycle was not aborted, and the sink holds
\* exactly one error (that of k) and exactly N-1 records.
C3_FleetIsolation ==
    \A k \in 1..Len(tasks) :
        ( /\ Len(tasks) >= 2
          /\ TaskFailed(k)
          /\ \A i \in 1..Len(tasks) : i # k => TaskSucceeded(i) )
        => /\ hostpc # "crashed"
           /\ Count(acc, "error") = 1
           /\ \E j \in 1..Len(acc) : acc[j].kind = "error" /\ acc[j].task = k
           /\ Count(acc, "fields") = Len(tasks) - 1

\* C4: while the fleet is not initialized no device is polled and no record
\* emitted; a call that ran init and left the fleet uninitialized returned
\* the failure; a call that returned a failure did not mark the fleet
\* initialized; and the fleet is marked initialized only when the last run
\* of init logged in to every configured server.
C4_InitAtomicity ==
    /\ ~initialized => (hostpc = "idle" /\ tasks = <<>> /\ acc = <<>>)
    /\ (ret.op # "none" /\ ~initialized) => ret.err # ErrNil
    /\ ret.err # ErrNil => ~initialized
    /\ initialized =>
          /\ Len(devices) >= Len(Servers)
          /\ \A s \in 1..Len(Servers) :
                LET d == devices[Len(devices) - Len(Servers) + s]
                IN  d.base = Servers[s] /\ d.ck # Nil

\* C4's case: a Gather whose lazy init logged in to the first device and
\* failed on the second
C4_Witness ==
    /\ ret.op = "Gather"
    /\ ret.err = "authentication failed"
    /\ Len(devices) = 1
    /\ ~initialized

\* C5: the device list never has more entries than the server list, and a
\* Gather that returned nil delivered exactly one outcome per configured
\* server.
C5_OneDevicePerEndpoint ==
    /\ Len(devices) <= Len(Servers)
    /\ (ret.op = "Gather" /\ ret.err = ErrNil /\ hostpc = "idle") => Len(acc) = Len(Servers)

\* C6: Dial on a device that holds a token fails with "already logged in",
\* sends no login request and leaves the token as it was.
C6_SessionDiscipline ==
    (call.op = "Dial" /\ call.pre.ck # Nil) =>
        /\ call.res.err = "already logged in"
        /\ ~call.res.panic
        /\ call.res.logins = 0
        /\ dev.ck = call.pre.ck

\* C6's case: Dial was called on a device holding a token
C6_Witness == call.op = "Dial" /\ call.pre.ck # Nil

\* a step that is a call of init on its own
InitStep == hostpc = "idle" /\ hostpc' = "idle" /\ ret'.op = "init"

InitNoop ==
    /\ UNCHANGED <<devices, rnd, initialized, inits, tasks, acc>>
    /\ ret'.logins = 0
    /\ ret'.err = ErrNil

C8_NotAuthenticated ==
    (call.op \in {"Gather", "Close"} /\ call.pre.ck = Nil) =>
        /\ ~call.res.panic
        /\ call.res.err = "not authenticated"
        /\ call.res.gets = 0
        /\ call.res.logouts = 0

\* C9: a poll that receives 200 with a body that is malformed JSON, or whose
\* "values" is missing or no mapping, returns an error, emits no record and
\* leaves the token as it was.
C9_BadBodyIsError ==
    (PolledWith(StatusOK) /\ call.get.body.kind # "ok") =>
        /\ ~call.res.panic
        /\ call.res.err # ErrNil
        /\ call.res.emitted = <<>>
        /\ dev.ck = call.pre.ck

\* the rules a key matches, each with the index it captures
MatchesOf(key) ==
    { <<r, Atoi(FindStringSubmatch(RulePrefix(r), key)[2]).v>> :
        r \in {x \in RuleIds : FindStringSubmatch(RulePrefix(x), key) # <<>>} }

CompanionPrefix(r) ==
    CASE r = 1 -> TempValue
      [] r = 2 -> MeterValue
      [] r = 3 -> VCValue
      [] r = 4 -> StatusIndicator
      [] r = 5 -> RelayIndicator

SensorOf(r) ==
    CASE r = 1 -> sensorTemp
      [] r = 2 -> sensorMeter
      [] r = 3 -> sensorVC
      [] r = 4 -> sensorStatus
      [] r = 5 -> sensorRelay

\* C10: a poll that receives a payload decodes it without aborting: one
\* record is emitted, it has a field for every key that matches a pattern,
\* and the field of a key whose companion key is absent is the absent value.
C10_MissingCompanion ==
    (PolledWith(StatusOK) /\ call.get.body.kind = "ok") =>
        /\ ~call.res.panic
        /\ Len(call.res.emitted) = 1
        /\ \A key \in DOMAIN call.get.body.values : \A m \in MatchesOf(key) :
              LET name == FieldName(SensorOf(m[1]), m[2])
                  comp == CompanionPrefix(m[1]) \o Pad2(m[2])
              IN  /\ name \in DOMAIN call.res.emitted[1]
                  /\ comp \notin DOMAIN call.get.body.values
                        => call.res.emitted[1][name] = NilValue

\* the payload of the last poll and the record it emitted
PolledValues == call.get.body.values

DecodedOk == PolledWith(StatusOK) /\ call.get.body.kind = "ok"

\* the companion key of a key that matches rule m[1] with index m[2]
CompanionOf(m) == CompanionPrefix(m[1]) \o Pad2(m[2])

\* the keys of the payload that match a rule, each with the rule and index
Matched(values) ==
    UNION { { <<key, m>> : m \in MatchesOf(key) } : key \in DOMAIN values }

\* the value a category makes of a companion value: the temperature is
\* stripped of its unit and parsed, the others are passed through
Transformed(r, x) ==
    IF r = 1 /\ x.t = "str" THEN AtoiValue(Atoi(TrimSuffix(x.s, UnitSuffix))) ELSE x

\* C11: a poll that receives a payload in which every key that matches a
\* pattern has its companion key emits one record; the record has, for
\* every such key, the field category_index holding the transformed
\* companion value, and has no field that comes from no matching key.
C11_DecodedFieldSet ==
    ( /\ DecodedOk
      /\ \A km \in Matched(PolledValues) : CompanionOf(km[2]) \in DOMAIN PolledValues )
    => /\ ~call.res.panic
       /\ Len(call.res.emitted) = 1
       /\ \A km \in Matched(PolledValues) :
             LET name == FieldName(SensorOf(km[2][1]), km[2][2])
             IN  /\ name \in DOMAIN call.res.emitted[1]
                 /\ call.res.emitted[1][name] =
                        Transformed(km[2][1], PolledValues[CompanionOf(km[2])])
       /\ \A name \in DOMAIN call.res.emitted[1] :
             \E km \in Matched(PolledValues) :
                name = FieldName(SensorOf(km[2][1]), km[2][2])

\* the record {temp_1: 68, meter_5: 42}
RecordEndToEnd ==
    (FieldName(sensorTemp, 1) :> IntValue(68)) @@ (FieldName(sensorMeter, 5) :> NumValue(42))

\* C12: a poll whose payload has a temperature key and its companion
\* string emits the field temp_index holding the integer parsed from the
\* string stripped of " *F", and 0 when that remainder does not parse; the
\* payload {T101, TempValue01: "68 *F", M105, MeterValue05: 42} yields
\* exactly {temp_1: 68, meter_5: 42}.
C12_TemperatureExtraction ==
    DecodedOk =>
        /\ \A km \in Matched(PolledValues) :
              ( /\ km[2][1] = 1
                /\ CompanionOf(km[2]) \in DOMAIN PolledValues
                /\ PolledValues[CompanionOf(km[2])].t = "str" )
              => LET a == Atoi(TrimSuffix(PolledValues[CompanionOf(km[2])].s, UnitSuffix))
                     name == FieldName(sensorTemp, km[2][2])
                 IN  /\ ~call.res.panic
                     /\ Len(call.res.emitted) = 1
                     /\ name \in DOMAIN call.res.emitted[1]
                     /\ call.res.emitted[1][name] = IF a.err THEN IntValue(0) ELSE IntValue(a.v)
        /\ PolledValues = PayloadEndToEnd => call.res.emitted = <<RecordEndToEnd>>

\* C13: the outcome of decoding a payload is the same for every order in
\* which the keys and the rules are iterated; no key matches more than one
\* rule, and two keys that write the same field write the same value.
C13_OrderIndependent ==
    DecodedOk =>
        /\ \A keys \in Perms(DOMAIN PolledValues), rules \in RuleOrders :
              LET dec == Decode(PolledValues, keys, rules)
              IN  /\ dec.panic = call.res.panic
                  /\ ~dec.panic => call.res.emitted = <<dec.fields>>
        /\ \A key \in DOMAIN PolledValues : Cardinality(MatchesOf(key)) <= 1
        /\ \A k1, k2 \in Matched(PolledValues) :
              FieldName(SensorOf(k1[2][1]), k1[2][2]) = FieldName(SensorOf(k2[2][1]), k2[2][2])
              => parsers(k1[2][1], PolledValues, k1[2][2]) = parsers(k2[2][1], PolledValues, k2[2][2])

\* C13's case: a payload decoded without a failure in which two keys write
\* the same field
C13_Witness ==
    /\ DecodedOk
    /\ ~call.res.panic
    /\ {KeyT101, KeyT11, KeyTempValue01} \subseteq DOMAIN PolledValues

\* goroutine i has handed its outcome to the accumulator
Delivered(i) ==
    \E j \in 1..Len(acc) :
        /\ acc[j].task = i
        /\ acc[j].kind = IF tasks[i].err # ErrNil THEN "error" ELSE "fields"

\* C14: while Gather waits there is exactly one goroutine per device of the
\* list; whenever the host is outside Gather every goroutine has ended, and
\* after a Gather that polled, every goroutine had delivered its outcome
\* before the return.
C14_FanOutFanIn ==
    /\ hostpc = "waiting" => Len(tasks) = Len(devices)
    /\ hostpc = "idle" => \A i \in 1..Len(tasks) : tasks[i].pc = "done"
    /\ (hostpc = "idle" /\ ret.op = "Gather" /\ initialized) =>
          /\ Len(tasks) = Len(devices)
          /\ \A i \in 1..Len(tasks) : Delivered(i)

\* C14's case: a Gather over two or more devices has returned
C14_Witness ==
    /\ hostpc = "idle"
    /\ ret.op = "Gather"
    /\ Len(tasks) >= 2
    /\ Len(acc) >= 2

\* C15: a poll of an authenticated device sends at most one GET and at most
\* one login request, and a login request only after status 206; when the
\* GET fails in transport or is answered with a status other than 200 and
\* 206, the poll returns an error, sends no login request and no second
\* GET, emits nothing and leaves the token as it was.
C15_AtMostOneLogin ==
    (call.op = "Gather" /\ call.pre.ck # Nil) =>
        /\ call.res.logins <= 1
        /\ call.res.gets <= 1
        /\ call.res.logins > 0 => (~call.get.err /\ call.get.status = StatusPartialContent)
        /\ (call.get.err \/ call.get.status \notin {StatusOK, StatusPartialContent}) =>
              /\ ~call.res.panic
              /\ call.res.err # ErrNil
              /\ call.res.logins = 0
              /\ call.res.gets = 1
              /\ call.res.emitted = <<>>
              /\ dev.ck = call.pre.ck

\* C15's case: a poll was answered with a status that is neither 200 nor 206
C15_Witness ==
    /\ call.op = "Gather"
    /\ call.pre.ck # Nil
    /\ ~call.get.err
    /\ call.get.status \notin {StatusOK, StatusPartialContent}

\* C16: a poll of an authenticated device that receives 206, while the
\* device would refuse a login, sends the login request, returns the
\* failure of that login and leaves the device holding no token.
C16_ExpiryDropsToken ==
    (PolledWith(StatusPartialContent) /\ ~Accepts(call.login)) =>
        /\ ~call.res.panic
        /\ call.res.logins = 1
        /\ call.res.err \in {"transport", "authentication failed", "no cookies returned"}
        /\ dev.ck = Nil

\* C17: Dial on a device that holds no token sends one login request; it
\* fails with the token still absent when the request fails in transport, is
\* answered with a status other than 200, or is answered without a cookie;
\* otherwise it succeeds and the token is the first cookie of the response.
C17_DialOutcome ==
    (call.op = "Dial" /\ call.pre.ck = Nil) =>
        /\ ~call.res.panic
        /\ call.res.logins = 1
        /\ IF Accepts(call.login)
           THEN call.res.err = ErrNil /\ dev.ck = Ptr(call.login.cookies[1])
           ELSE /\ dev.ck = Nil
                /\ call.res.err =
                      IF call.login.err THEN "transport"
                      ELSE IF call.login.status # StatusOK THEN "authentication failed"
                      ELSE "no cookies returned"

\* C17's case: a login answered with two cookies
C17_Witness ==
    /\ call.op = "Dial"
    /\ call.pre.ck = Nil
    /\ call.res.err = ErrNil
    /\ Len(call.login.cookies) >= 2
    /\ call.login.cookies[1] # call.login.cookies[Len(call.login.cookies)]

\* the goroutines of the cycle that have used bt.rnd
RndUsers == {i \in 1..Len(tasks) : tasks[i].rnd}

\* a step that changes device j of the list is the step of goroutine j that
\* handles the response to its GET
OwnTask ==
    \A j \in 1..Len(devices) :
        (j <= Len(devices') /\ devices'[j] # devices[j]) =>
            (tasks[j].pc = "fetching" /\ tasks'[j].pc # "fetching")

\* C18: in every cycle at most one goroutine uses bt.rnd (the goroutines of a
\* cycle are not ordered with each other, so two users would be a race), and
\* the token of a device is changed only by the goroutine polling it.
C18_NoSharedState == [](Cardinality(RndUsers) <= 1) /\ [][OwnTask]_vars

\* C18's case: two devices answered 206 in the same cycle
C18_Witness ==
    \E i, j \in 1..Len(tasks) :
        /\ i # j
        /\ tasks[i].pc = "done" /\ tasks[i].err = "already logged in"
        /\ tasks[j].pc = "done" /\ tasks[j].err = "already logged in"

\* C19: every device of the list holds a token and a client, so the GET of a
\* poll never attaches a nil cookie.
C19_ListedDevicesHoldToken ==
    \A i \in 1..Len(devices) :
        /\ devices[i].ck # Nil
        /\ ~sendPanics(devices[i], TRUE)

\* C19's case: the goroutines of a list of two or more devices have issued
\* their GET
C19_Witness ==
    /\ Len(devices) >= 2
    /\ \A i \in 1..Len(tasks) : tasks[i].pc = "fetching"
    /\ Len(tasks) = Len(devices)

\* C20: a Gather that returned on an initialized fleet returned nil, however
\* many polls failed, and every failed poll had its error delivered to the
\* accumulator; a Gather that returned an error is one whose lazy init
\* failed: it polled nothing and left the fleet uninitialized.
C20_GatherReturnsNil ==
    /\ (hostpc = "idle" /\ ret.op = "Gather" /\ initialized) =>
          /\ ret.err = ErrNil
          /\ \A i \in 1..Len(tasks) : tasks[i].err # ErrNil => Delivered(i)
    /\ (ret.op = "Gather" /\ ret.err # ErrNil) =>
          /\ ~initialized
          /\ tasks = <<>>
          /\ acc = <<>>

\* C20's case: a Gather in which every poll of two or more devices failed
\* has returned
C20_Witness ==
    /\ hostpc = "idle"
    /\ ret.op = "Gather"
    /\ ret.err = ErrNil
    /\ Len(tasks) >= 2
    /\ \A i \in 1..Len(tasks) : tasks[i].pc = "done" /\ tasks[i].err # ErrNil

=============================================================================
